---- MODULE Spec2Model ----
(***************************************************************************)
(* QuickBooks Online OAuth helper (qbo_receipt_processor2.py).             *)
(*                                                                         *)
(* The model follows one shell in which the CLI is invoked again and       *)
(* again.  Every invocation is a fresh Python process: the module global   *)
(* auth_client starts as None, while the process environment, the OS       *)
(* keychain and the file tokens.json outlive the process.                  *)
(*                                                                         *)
(* Python's None is the string None below; a file or an object that may be *)
(* missing is a sequence of length 0 or 1.                                 *)
(***************************************************************************)
EXTENDS Integers, Sequences, FiniteSets

VARIABLES
    env,            \* os.environ: QBO_CLIENT_ID / QBO_CLIENT_SECRET -> value or None
    vault,          \* keyring entries of SERVICE: client_id / client_secret -> value or None
    tokens_json,    \* the file tokens.json: <<>> when absent, else <<record>>
    auth_client,    \* the module global: <<>> for None, else <<AuthClient object>>
    cmd,            \* sys.argv[1] of the current (or last) invocation
    pc,             \* where that invocation stands
    exit,           \* how it ended ("running" while it has not)
    request,        \* the HTTP request the callback listener received
    code,           \* do_GET local
    realm_id,       \* do_GET local
    response,       \* what was sent back to the browser
    idp_response,   \* what the identity provider's token endpoint returned
    handler_error,  \* exception raised inside the request handler, or None
    api_response,   \* response of the accounting API to requests.get
    log,            \* I/O events of the invocation, in order
    stdout,         \* what the invocation printed
    returned,       \* get_transactions returned a Report Document
    tokens_before,  \* tokens.json as it was when the invocation started
    report_json,    \* argument of parse_transaction_list
    out             \* result of parse_transaction_list

vars == <<env, vault, tokens_json, auth_client, cmd, pc, exit, request, code,
          realm_id, response, idp_response, handler_error, api_response, log,
          stdout, returned, tokens_before, report_json, out>>

None == "<None>"

(***************************************************************************)
(* Bounds of the report documents handed to the flattener.                 *)
(***************************************************************************)
MaxCols == 2
MaxCells == 2
MaxRows == 2

(***************************************************************************)
(* Small input domains.                                                    *)
(***************************************************************************)
SecretNames == {"client_id", "client_secret"}
EnvNames == {"QBO_CLIENT_ID", "QBO_CLIENT_SECRET"}
EnvValues == {None, "", "abc"}
VaultValues == {None, "", "xyz"}
KeyInputs == {"", "xyz", " xyz "}
Codes == {None, "", "c1"}
Realms == {None, "", "r1", "r2"}
Methods == {"GET", "POST"}
IssuedTokens == {[access_token |-> "at1", refresh_token |-> "rt1"],
                 [access_token |-> "at2", refresh_token |-> "rt2"]}
Statuses == {0, 200, 300, 404, 500}      \* 0: no response (connection failure)
ColTitles == {"Date", "Amount"}
CellValues == {"v1", "v2"}
RowTypes == {"Data", "Section"}

SeqsUpTo(S, n) == UNION {[1..k -> S] : k \in 0..n}

Requests == [method : Methods, query : [code : Codes, realmId : Realms]]
ApiResponses == [status : Statuses, json : BOOLEAN]
NoRequest == [method |-> None, query |-> [code |-> None, realmId |-> None]]
NoResponse == [status |-> 0, body |-> ""]
NoTokens == [access_token |-> None, refresh_token |-> None]
NoApiResponse == [status |-> 0, json |-> FALSE]

ReportRows == [type : RowTypes, ColData : SeqsUpTo([value : CellValues], MaxCells)]
ReportDocuments ==
    [Columns : [Column : SeqsUpTo([ColTitle : ColTitles], MaxCols)],
     Rows : [Row : SeqsUpTo(ReportRows, MaxRows)]]
EmptyReport == [Columns |-> [Column |-> <<>>], Rows |-> [Row |-> <<>>]]

(***************************************************************************)
(* Credential store.                                                       *)
(***************************************************************************)
\* Python truthiness of an optional string: None and "" are falsy.
Truthy(s) == s # None /\ s # ""

\* f"QBO_{name.upper()}"
EnvVarName(name) ==
    CASE name = "client_id" -> "QBO_CLIENT_ID"
      [] name = "client_secret" -> "QBO_CLIENT_SECRET"

\* faulty variant: the keychain is asked first
VaultFirst_get_secret(name) ==
    IF Truthy(vault[name]) THEN vault[name] ELSE env[EnvVarName(name)]

\* os.getenv(...) or keyring.get_password(SERVICE, name)
_get_secret(name) ==
    IF Truthy(env[EnvVarName(name)]) THEN env[EnvVarName(name)] ELSE vault[name]

\* str.strip() on the prompts' inputs
strip(s) == IF s = " xyz " THEN "xyz" ELSE s

\* faulty variant: only the client id is checked
OnlyId_get_auth_client_raises(ac) ==
    ac = <<>> /\ ~Truthy(_get_secret("client_id"))

\* get_auth_client raises SystemExit: no client yet and one of the secrets is missing
get_auth_client_raises(ac) ==
    ac = <<>> /\ (~Truthy(_get_secret("client_id")) \/ ~Truthy(_get_secret("client_secret")))

\* get_auth_client when it does not raise: the cached client, or a new one
get_auth_client(ac) ==
    IF ac = <<>>
    THEN <<[client_id |-> _get_secret("client_id"),
            client_secret |-> _get_secret("client_secret"),
            access_token |-> None,
            refresh_token |-> None]>>
    ELSE ac

(***************************************************************************)
(* Callback listener helpers.                                              *)
(***************************************************************************)
\* parse_qs(...).get(key, [None])[0]: parse_qs drops blank values
qs_get(query, key) == IF query[key] = "" THEN None ELSE query[key]

CB_BODY == "OK, you can close this tab."
OK200 == [status |-> 200, body |-> CB_BODY]

\* faulty variant: the realm of an existing file is kept (partial update)
KeepRealm_token_record(ac, realm) ==
    [access_token |-> ac[1].access_token,
     refresh_token |-> ac[1].refresh_token,
     realm_id |-> IF tokens_json = <<>> THEN realm ELSE tokens_json[1].realm_id]

\* the dict handed to json.dump
token_record(ac, realm) ==
    [access_token |-> ac[1].access_token,
     refresh_token |-> ac[1].refresh_token,
     realm_id |-> realm]

(***************************************************************************)
(* Report client helpers.                                                  *)
(***************************************************************************)
\* faulty variant: the file is not opened before the request
Never_open_tokens_raises == FALSE

\* open("tokens.json") raises FileNotFoundError
open_tokens_raises == tokens_json = <<>>

\* faulty variant: only server errors raise
ServerOnly_raise_for_status(status) == 500 <= status /\ status < 600

\* requests' Response.raise_for_status raises HTTPError for 4xx and 5xx
raise_for_status(status) == 400 <= status /\ status < 600

\* requests.get(...); r.raise_for_status(); r.json()
request_outcome(r) ==
    IF r.status = 0 THEN "ConnectionError"
    ELSE IF raise_for_status(r.status) THEN "HTTPError"
    ELSE IF ~r.json THEN "JSONDecodeError"
    ELSE "ok"

(***************************************************************************)
(* Report flattener.                                                       *)
(***************************************************************************)
Min(a, b) == IF a <= b THEN a ELSE b

\* dict(zip(keys, values)): zip stops at the shorter one, a repeated key keeps
\* its last value
dict_zip(keys, values) ==
    LET n == Min(Len(keys), Len(values))
    IN  [k \in {keys[i] : i \in 1..n} |->
            values[CHOOSE i \in 1..n :
                      keys[i] = k /\ \A j \in 1..n : keys[j] = k => j <= i]]

RECURSIVE flatten_all(_, _)
\* faulty variant: every row is flattened, whatever its type
flatten_all(cols, rows) ==
    IF rows = <<>> THEN <<>>
    ELSE <<dict_zip(cols, [i \in 1..Len(Head(rows).ColData) |->
                              Head(rows).ColData[i].value])>>
         \o flatten_all(cols, Tail(rows))

RECURSIVE flatten_rows(_, _)
\* the for loop over Rows.Row
flatten_rows(cols, rows) ==
    IF rows = <<>> THEN <<>>
    ELSE (IF Head(rows).type = "Data"
          THEN <<dict_zip(cols, [i \in 1..Len(Head(rows).ColData) |->
                                    Head(rows).ColData[i].value])>>
          ELSE <<>>)
         \o flatten_rows(cols, Tail(rows))

parse_transaction_list(doc) ==
    flatten_rows([i \in 1..Len(doc.Columns.Column) |-> doc.Columns.Column[i].ColTitle],
                 doc.Rows.Row)

(***************************************************************************)
(* Initial state: a shell prompt, no tokens.json yet, any environment and  *)
(* keychain content.                                                       *)
(***************************************************************************)
Idle ==
    /\ tokens_json = <<>>
    /\ auth_client = <<>>
    /\ cmd = None
    /\ exit = None
    /\ request = NoRequest
    /\ code = None
    /\ realm_id = None
    /\ response = NoResponse
    /\ idp_response = NoTokens
    /\ handler_error = None
    /\ api_response = NoApiResponse
    /\ log = <<>>
    /\ stdout = ""
    /\ returned = FALSE
    /\ tokens_before = <<>>
    /\ out = <<>>

Init ==
    /\ env \in [EnvNames -> EnvValues]
    /\ vault \in [SecretNames -> VaultValues]
    /\ pc = "shell"
    /\ report_json = EmptyReport
    /\ Idle

\* A new process for command c: nothing of the previous invocation is left.
NewProcess(c) ==
    /\ pc = "shell"
    /\ cmd' = c
    /\ request' = NoRequest
    /\ code' = None
    /\ realm_id' = None
    /\ response' = NoResponse
    /\ idp_response' = NoTokens
    /\ handler_error' = None
    /\ tokens_before' = tokens_json
    /\ UNCHANGED <<env, report_json, out>>

(***************************************************************************)
(* login: lines 89-94.  The authorization URL is opened in the browser and *)
(* HTTPServer.handle_request() waits for one request.                      *)
(***************************************************************************)
login ==
    /\ NewProcess("login")
    /\ IF get_auth_client_raises(<<>>)
       THEN /\ auth_client' = <<>>
            /\ log' = <<>>
            /\ exit' = "SystemExit"
            /\ pc' = "shell"
       ELSE /\ auth_client' = get_auth_client(<<>>)
            /\ log' = <<"authorization">>
            /\ exit' = "running"
            /\ pc' = "listening"
    /\ stdout' = ""
    /\ api_response' = NoApiResponse
    /\ returned' = FALSE
    /\ UNCHANGED <<vault, tokens_json>>

\* handle_request(): one request arrives; BaseHTTPRequestHandler calls do_GET
\* for a GET and answers 501 itself for a method CB does not define.
handle_request ==
    /\ pc = "listening"
    /\ \E req \in Requests :
          /\ request' = req
          /\ IF req.method = "GET"
             THEN pc' = "do_GET" /\ response' = response
             ELSE pc' = "handled" /\ response' = [status |-> 501, body |-> ""]
    /\ log' = Append(log, "request")
    /\ UNCHANGED <<env, vault, tokens_json, auth_client, cmd, exit, code, realm_id,
                   idp_response, handler_error, api_response, stdout, returned,
                   tokens_before, report_json, out>>

\* faulty variant: a request without a code is answered 400
Validating_do_GET_respond ==
    /\ pc = "do_GET"
    /\ code' = qs_get(request.query, "code")
    /\ realm_id' = qs_get(request.query, "realmId")
    /\ response' = IF qs_get(request.query, "code") = None
                   THEN [status |-> 400, body |-> "missing code"]
                   ELSE OK200
    /\ log' = Append(log, "response")
    /\ pc' = "exchange"
    /\ UNCHANGED <<env, vault, tokens_json, auth_client, cmd, exit, request,
                   idp_response, handler_error, api_response, stdout, returned,
                   tokens_before, report_json, out>>

\* do_GET, lines 74-78: parse the query, answer the browser
do_GET_respond ==
    /\ pc = "do_GET"
    /\ code' = qs_get(request.query, "code")
    /\ realm_id' = qs_get(request.query, "realmId")
    /\ response' = OK200
    /\ log' = Append(log, "response")
    /\ pc' = "exchange"
    /\ UNCHANGED <<env, vault, tokens_json, auth_client, cmd, exit, request,
                   idp_response, handler_error, api_response, stdout, returned,
                   tokens_before, report_json, out>>

\* faulty variant: tokens.json is opened for writing before the exchange
OpenFirst_do_GET_exchange ==
    /\ pc = "exchange"
    /\ ~get_auth_client_raises(auth_client)
    /\ log' = Append(log, "token_exchange")
    /\ \/ \E t \in IssuedTokens :
             /\ idp_response' = t
             /\ auth_client' = <<[get_auth_client(auth_client)[1] EXCEPT
                                    !.access_token = t.access_token,
                                    !.refresh_token = t.refresh_token]>>
             /\ handler_error' = None
             /\ pc' = "write"
             /\ tokens_json' = tokens_json
       \/ /\ idp_response' = NoTokens
          /\ auth_client' = get_auth_client(auth_client)
          /\ handler_error' = "AuthClientError"
          /\ pc' = "handled"
          /\ tokens_json' = <<>>
    /\ UNCHANGED <<env, vault, cmd, exit, request, code, realm_id,
                   response, api_response, stdout, returned, tokens_before,
                   report_json, out>>

\* do_GET, lines 80-81: the code is exchanged for tokens.  The identity
\* provider answers with a token pair or the call raises; an exception leaves
\* do_GET and is caught by socketserver's handle_error, which logs it.
do_GET_exchange ==
    /\ pc = "exchange"
    /\ ~get_auth_client_raises(auth_client)
    /\ log' = Append(log, "token_exchange")
    /\ \/ \E t \in IssuedTokens :
             /\ idp_response' = t
             /\ auth_client' = <<[get_auth_client(auth_client)[1] EXCEPT
                                    !.access_token = t.access_token,
                                    !.refresh_token = t.refresh_token]>>
             /\ handler_error' = None
             /\ pc' = "write"
       \/ /\ idp_response' = NoTokens
          /\ auth_client' = get_auth_client(auth_client)
          /\ handler_error' = "AuthClientError"
          /\ pc' = "handled"
    /\ UNCHANGED <<env, vault, tokens_json, cmd, exit, request, code, realm_id,
                   response, api_response, stdout, returned, tokens_before,
                   report_json, out>>

\* do_GET, lines 82-87: tokens.json is opened with mode "w" and written
do_GET_write ==
    /\ pc = "write"
    /\ tokens_json' = <<token_record(auth_client, realm_id)>>
    /\ log' = Append(log, "write_tokens")
    /\ pc' = "handled"
    /\ UNCHANGED <<env, vault, auth_client, cmd, exit, request, code, realm_id,
                   response, idp_response, handler_error, api_response, stdout,
                   returned, tokens_before, report_json, out>>

\* faulty variant: the listener keeps serving (serve_forever)
Forever_login_return ==
    /\ pc = "handled"
    /\ pc' = "listening"
    /\ UNCHANGED <<env, vault, tokens_json, auth_client, cmd, exit, request, code,
                   realm_id, response, idp_response, handler_error, api_response,
                   log, stdout, returned, tokens_before, report_json, out>>

\* handle_request() returns after the one request, whether or not the handler
\* raised; login returns and the process ends with status 0.
login_return ==
    /\ pc = "handled"
    /\ pc' = "shell"
    /\ exit' = "ok"
    /\ UNCHANGED <<env, vault, tokens_json, auth_client, cmd, request, code,
                   realm_id, response, idp_response, handler_error, api_response,
                   log, stdout, returned, tokens_before, report_json, out>>

(***************************************************************************)
(* whoami: company_info_raw, lines 96-106.                                 *)
(***************************************************************************)
company_info_raw ==
    /\ NewProcess("whoami")
    /\ IF open_tokens_raises
       THEN /\ exit' = "FileNotFoundError"
            /\ log' = <<>>
            /\ api_response' = NoApiResponse
            /\ stdout' = ""
       ELSE \E r \in ApiResponses :
               /\ api_response' = r
               /\ log' = <<"GET companyinfo">>
               /\ exit' = request_outcome(r)
               /\ stdout' = IF request_outcome(r) = "ok" THEN "CompanyInfo" ELSE ""
    /\ returned' = FALSE
    /\ pc' = "shell"
    /\ auth_client' = <<>>
    /\ UNCHANGED <<vault, tokens_json>>

(***************************************************************************)
(* query: company_info_sdk, lines 108-116.                                 *)
(***************************************************************************)
company_info_sdk ==
    /\ NewProcess("query")
    /\ IF open_tokens_raises
       THEN /\ exit' = "FileNotFoundError"
            /\ log' = <<>>
            /\ stdout' = ""
            /\ auth_client' = <<>>
       ELSE IF get_auth_client_raises(<<>>)
       THEN /\ exit' = "SystemExit"
            /\ log' = <<>>
            /\ stdout' = ""
            /\ auth_client' = <<>>
       ELSE /\ auth_client' = get_auth_client(<<>>)
            /\ log' = <<"sdk_query">>
            /\ \E ok \in BOOLEAN :
                  /\ exit' = IF ok THEN "ok" ELSE "QuickbooksException"
                  /\ stdout' = IF ok THEN "Accounts" ELSE ""
    /\ api_response' = NoApiResponse
    /\ returned' = FALSE
    /\ pc' = "shell"
    /\ UNCHANGED <<vault, tokens_json>>

(***************************************************************************)
(* tx <start> <end>: get_transactions, lines 118-130.                      *)
(***************************************************************************)
get_transactions ==
    /\ NewProcess("tx")
    /\ IF open_tokens_raises
       THEN /\ exit' = "FileNotFoundError"
            /\ log' = <<>>
            /\ api_response' = NoApiResponse
            /\ returned' = FALSE
       ELSE \E r \in ApiResponses :
               /\ api_response' = r
               /\ log' = <<"GET TransactionList">>
               /\ exit' = request_outcome(r)
               /\ returned' = (request_outcome(r) = "ok")
    /\ stdout' = ""
    /\ pc' = "shell"
    /\ auth_client' = <<>>
    /\ UNCHANGED <<vault, tokens_json>>

(***************************************************************************)
(* setkeys, lines 37-43.                                                   *)
(***************************************************************************)
setkeys ==
    /\ NewProcess("setkeys")
    /\ \E cid \in KeyInputs, cs \in KeyInputs :
          vault' = [client_id |-> strip(cid), client_secret |-> strip(cs)]
    /\ stdout' = "Saved to OS keychain under service:"
    /\ log' = <<>>
    /\ exit' = "ok"
    /\ api_response' = NoApiResponse
    /\ returned' = FALSE
    /\ pc' = "shell"
    /\ auth_client' = <<>>
    /\ UNCHANGED tokens_json

(***************************************************************************)
(* parse <report-json>, line 153: the argument is a str, which has no .get *)
(* method, so parse_transaction_list raises at once.                       *)
(***************************************************************************)
parse_cli ==
    /\ NewProcess("parse")
    /\ exit' = "AttributeError"
    /\ stdout' = ""
    /\ log' = <<>>
    /\ api_response' = NoApiResponse
    /\ returned' = FALSE
    /\ pc' = "shell"
    /\ auth_client' = <<>>
    /\ UNCHANGED <<vault, tokens_json>>

\* any other command word, line 154
usage ==
    /\ NewProcess("help")
    /\ exit' = "ok"
    /\ stdout' = "Usage: python qbo_min.py [login|whoami|query]"
    /\ log' = <<>>
    /\ api_response' = NoApiResponse
    /\ returned' = FALSE
    /\ pc' = "shell"
    /\ auth_client' = <<>>
    /\ UNCHANGED <<vault, tokens_json>>

Next ==
    \/ login
    \/ handle_request
    \/ do_GET_respond
    \/ do_GET_exchange
    \/ do_GET_write
    \/ login_return
    \/ company_info_raw
    \/ company_info_sdk
    \/ get_transactions
    \/ setkeys
    \/ parse_cli
    \/ usage

Spec == Init /\ [][Next]_vars

(***************************************************************************)
(* The flattener on its own: any report document within the bounds.        *)
(***************************************************************************)
InitFlattener ==
    /\ env = [n \in EnvNames |-> None]
    /\ vault = [n \in SecretNames |-> None]
    /\ pc = "call"
    /\ report_json \in ReportDocuments
    /\ Idle

flatten ==
    /\ pc = "call"
    /\ out' = parse_transaction_list(report_json)
    /\ pc' = "returned"
    /\ UNCHANGED <<env, vault, tokens_json, auth_client, cmd, exit, request, code,
                   realm_id, response, idp_response, handler_error, api_response,
                   log, stdout, returned, tokens_before, report_json>>

NextFlattener == flatten

SpecFlattener == InitFlattener /\ [][NextFlattener]_vars

(***************************************************************************)
(* Properties.                                                             *)
(***************************************************************************)
Count(s, e) == Cardinality({i \in DOMAIN s : s[i] = e})

NetworkCalls ==
    {"authorization", "token_exchange", "GET companyinfo", "GET TransactionList",
     "sdk_query"}

HasNetCall == \E i \in DOMAIN log : log[i] \in NetworkCalls

CredsPresent ==
    /\ Truthy(IF Truthy(env["QBO_CLIENT_ID"]) THEN env["QBO_CLIENT_ID"]
              ELSE vault["client_id"])
    /\ Truthy(IF Truthy(env["QBO_CLIENT_SECRET"]) THEN env["QBO_CLIENT_SECRET"]
              ELSE vault["client_secret"])

TokenFields == {"access_token", "refresh_token", "realm_id"}

\* C1: in one login at most one request is served, at most one token exchange
\* is made and tokens.json is written at most once; a login that returned has
\* served exactly one request.
C1_OneExchangePerLogin ==
    cmd = "login" =>
        /\ Count(log, "request") <= 1
        /\ Count(log, "token_exchange") <= 1
        /\ Count(log, "write_tokens") <= 1
        /\ (pc = "shell" /\ exit = "ok" => Count(log, "request") = 1)

C1_Witness ==
    /\ cmd = "login" /\ pc = "shell" /\ exit = "ok"
    /\ Count(log, "token_exchange") = 1
    /\ Count(log, "write_tokens") = 1

\* C2: after a login whose exchange succeeded, tokens.json holds exactly the
\* three fields: the access and refresh token the identity provider returned
\* in this login and the realmId of this login's request (none when the request
\* carried none or a blank one); nothing of the earlier file is left.
C2_TokenFileAfterLogin ==
    (cmd = "login" /\ idp_response # NoTokens /\ pc \in {"handled", "shell"}) =>
        /\ Len(tokens_json) = 1
        /\ DOMAIN tokens_json[1] = TokenFields
        /\ tokens_json[1].access_token = idp_response.access_token
        /\ tokens_json[1].refresh_token = idp_response.refresh_token
        /\ (Truthy(request.query.realmId)
                => tokens_json[1].realm_id = request.query.realmId)
        /\ (~Truthy(request.query.realmId) => tokens_json[1].realm_id = None)

C2_Witness ==
    /\ cmd = "login" /\ pc = "shell" /\ idp_response # NoTokens
    /\ tokens_before # <<>>
    /\ tokens_json # <<>>
    /\ tokens_before[1].access_token # tokens_json[1].access_token
    /\ tokens_before[1].refresh_token # tokens_json[1].refresh_token
    /\ tokens_before[1].realm_id # tokens_json[1].realm_id

\* C3 as claimed: whichever command runs, a network call is issued only with
\* both the client id and the client secret present.
C3_Original ==
    (cmd \in {"login", "whoami", "query", "tx"} /\ HasNetCall) => CredsPresent

\* C3 as amended: login and query issue a network call only with both secrets
\* present; without them login ends in SystemExit, query ends in SystemExit
\* (or in FileNotFoundError when tokens.json is missing), and neither issues a
\* network call.  setkeys, parse and the usage message never issue one.
\* whoami and tx do not look at the secrets.
C3_SecretsBeforeNetwork ==
    /\ (cmd \in {"login", "query"} /\ HasNetCall => CredsPresent)
    /\ (cmd = "login" /\ ~CredsPresent
            => pc = "shell" /\ exit = "SystemExit" /\ ~HasNetCall)
    /\ (cmd = "query" /\ ~CredsPresent
            => /\ ~HasNetCall
               /\ exit = IF tokens_json = <<>> THEN "FileNotFoundError"
                         ELSE "SystemExit")
    /\ (cmd \in {"setkeys", "parse", "help"} => ~HasNetCall)

C3_Witness ==
    /\ cmd = "query" /\ tokens_json # <<>> /\ ~CredsPresent
    /\ exit = "SystemExit" /\ log = <<>>

\* C4 as claimed: a login whose token exchange failed made one exchange only
\* and does not end like a successful one.
C4_FailedExchangeEndsLogin ==
    (cmd = "login" /\ handler_error # None) =>
        /\ Count(log, "token_exchange") = 1
        /\ (pc = "shell" => exit # "ok")

\* C5: the 200 response precedes the token exchange, and every request that
\* reaches do_GET is answered with the same status and body.
C5_ResponseBeforeExchange ==
    /\ \A i \in DOMAIN log :
          log[i] = "token_exchange" => \E j \in 1..(i - 1) : log[j] = "response"
    /\ (cmd = "login" /\ request.method = "GET" /\ pc # "do_GET")
          => response = [status |-> 200, body |-> "OK, you can close this tab."]

C5_Witness ==
    /\ cmd = "login" /\ pc = "handled"
    /\ request.method = "GET"
    /\ request.query.code = None
    /\ handler_error # None
    /\ response.status = 200

\* the title of column j and the data rows of a document
Title(doc, j) == doc.Columns.Column[j].ColTitle
DataRows(doc) == SelectSeq(doc.Rows.Row, LAMBDA r : r.type = "Data")
AllTitles(doc) == {Title(doc, j) : j \in 1..Len(doc.Columns.Column)}

\* C6 as claimed: one record per data row, in order, each with all the column
\* titles as its keys.
C6_Original ==
    pc = "returned" =>
        /\ Len(out) = Len(DataRows(report_json))
        /\ \A i \in 1..Len(out) : DOMAIN out[i] = AllTitles(report_json)

\* C6 as amended: one record per data row, in order; the keys of a record are
\* the titles of the first min(columns, cells) columns, hence all the titles
\* when the row has at least as many cells as there are columns; a key's value
\* is the cell under the last of those columns that bears the title.
C6_Flattener ==
    pc = "returned" =>
        /\ Len(out) = Len(DataRows(report_json))
        /\ \A i \in 1..Len(out) :
              LET row == DataRows(report_json)[i]
                  n == Min(Len(report_json.Columns.Column), Len(row.ColData))
              IN  /\ DOMAIN out[i] = {Title(report_json, j) : j \in 1..n}
                  /\ (Len(row.ColData) >= Len(report_json.Columns.Column)
                         => DOMAIN out[i] = AllTitles(report_json))
                  /\ \A j \in 1..n :
                        (\A l \in (j + 1)..n :
                            Title(report_json, l) # Title(report_json, j))
                        => out[i][Title(report_json, j)] = row.ColData[j].value

C6_Witness ==
    /\ pc = "returned"
    /\ Len(report_json.Rows.Row) = 2
    /\ report_json.Rows.Row[1].type = "Section"
    /\ Len(out) = 1
    /\ Len(report_json.Columns.Column) = 2
    /\ report_json.Columns.Column[2].ColTitle = "Amount"
    /\ Len(report_json.Rows.Row[2].ColData) = 1
    /\ out[1] = [Date |-> "v2"]

C8_NoTokensNoRequest ==
    /\ [](cmd \in {"whoami", "query", "tx"} =>
            /\ (tokens_json = <<>> => exit = "FileNotFoundError" /\ log = <<>>)
            /\ (exit = "ok" => tokens_json # <<>>))
    /\ [][tokens_json = <<>> /\ tokens_json' # <<>>
            => cmd = "login" /\ pc = "write"]_vars

C8_Witness ==
    /\ cmd = "tx" /\ tokens_json = <<>> /\ exit = "FileNotFoundError"
    /\ Truthy(_get_secret("client_id")) /\ Truthy(_get_secret("client_secret"))

\* C9 as claimed: the client is built from the environment variable whenever
\* the variable is set.
C9_Original ==
    auth_client # <<>> =>
        /\ (env["QBO_CLIENT_ID"] # None
               => auth_client[1].client_id = env["QBO_CLIENT_ID"])
        /\ (env["QBO_CLIENT_SECRET"] # None
               => auth_client[1].client_secret = env["QBO_CLIENT_SECRET"])

\* C9 as amended: _get_secret returns the environment variable's value when it
\* is set and not empty, whatever the keychain holds; otherwise (unset or
\* empty) it returns the keychain's entry, which is None when there is none.
C9_SecretResolution ==
    /\ \A name \in {"client_id", "client_secret"} :
          LET e == env[[client_id |-> "QBO_CLIENT_ID",
                        client_secret |-> "QBO_CLIENT_SECRET"][name]]
          IN  /\ (Truthy(e) => _get_secret(name) = e)
              /\ (~Truthy(e) => _get_secret(name) = vault[name])
              /\ (e = None /\ vault[name] = None => _get_secret(name) = None)
    /\ auth_client # <<>> =>
          /\ Truthy(env["QBO_CLIENT_ID"])
                => auth_client[1].client_id = env["QBO_CLIENT_ID"]
          /\ ~Truthy(env["QBO_CLIENT_ID"])
                => auth_client[1].client_id = vault["client_id"]

C9_Witness ==
    /\ auth_client # <<>>
    /\ env["QBO_CLIENT_ID"] = "abc" /\ vault["client_id"] = "xyz"
    /\ auth_client[1].client_id = "abc"
    /\ env["QBO_CLIENT_SECRET"] = "" /\ auth_client[1].client_secret = "xyz"

\* C10: a login whose token exchange failed leaves tokens.json as it found it.
C10_FailedExchangeKeepsFile ==
    (cmd = "login" /\ handler_error # None) => tokens_json = tokens_before

C10_Witness ==
    /\ cmd = "login" /\ pc = "shell" /\ handler_error # None
    /\ tokens_before # <<>>
    /\ tokens_json = tokens_before

====
